---- MODULE Spec2Model ----
(***************************************************************************)
(* Change detection and scheduling of the Grow-a-Garden stock auto-poster. *)
(*                                                                         *)
(* The repository holds several variants of one script.  The main ones are *)
(* listed here; each variant, and the pure functions, is modelled as its   *)
(* own specification over the same variables:                              *)
(*                                                                         *)
(*   Spec          src/index.js lines 1-269: node-cron every 5 minutes,    *)
(*                 POST /trigger, socket fetch with timeout, publisher     *)
(*                 with 3 attempts that rethrows the last error.           *)
(*   SpecInterval  src/README.md lines 22-340: setTimeout to the next      *)
(*                 5-minute boundary, then setInterval; socket fetch       *)
(*                 without timeout; publisher that swallows its errors.    *)
(*   SpecAdaptive  src/unnamed/part_002 lines 249-482: runCheck chain with *)
(*                 a delay computed from the countdowns of the snapshot.   *)
(*   SpecSeparated src/unnamed/part_004: two feeds checked one after the   *)
(*                 other.  SpecReset src/unnamed/part_000: the Sunday      *)
(*                 reset.  SpecHttp, SpecSocket, SpecShared, SpecModes:    *)
(*                 the fetches and the schedulers.  SpecFunctions: the     *)
(*                 pure functions, one call at a time.                     *)
(*                                                                         *)
(* JavaScript runs one callback at a time: the code between two awaits is  *)
(* one atomic action.  Network calls made without a timeout option have no *)
(* time bound, so a timer may fire at any moment while a cycle is in       *)
(* flight; time itself is not a variable.                                  *)
(***************************************************************************)
EXTENDS Integers, Sequences, FiniteSets, TLC

\* ---------------------------------------------------------------- bounds
MaxCycles == 3      \* checkAndPost invocations started in one behaviour
MaxInFlight == 2    \* checkAndPost invocations in flight at one time
MaxQty == 1         \* item quantities 1..MaxQty (snapshots differ by weather too)
MaxCountdown == 2   \* countdown strings "00h 00m 00s" .. "00h 00m 0<MaxCountdown>s"
MaxStamp == 2       \* values of the updated_at timestamps

VARIABLES
    hashFile,        \* the fingerprint file: [exists, content]
    cycles,          \* the checkAndPost invocations, by order of start
    started,         \* how many invocations have been started
    longLivedToken,  \* CONFIG.LONG_PAGE_ACCESS_TOKEN is set
    overlapped,      \* history: two invocations have been in flight at once
    triggerOverlap,  \* history: the last step was a POST /trigger that started
                     \*   an invocation while another one was in flight
    lastPost,        \* history: fingerprint of the last accepted post, reset
                     \*   when a different fingerprint is stored
    call,            \* a function under study: [fn, arg, returned, result]
    ws,              \* the socket and the promise of getStockData
    sched,           \* position of the start-up scheduler
    timer            \* pending setTimeout(runCheck, delay): the delay, or -1

vars == <<hashFile, cycles, started, longLivedToken, call, ws, overlapped, triggerOverlap, lastPost, sched, timer>>

CycleIds == 1..MaxCycles

\* What a step of an invocation in flight leaves alone.
stepFrame == <<started, longLivedToken, call, ws, overlapped, sched, timer>>

\* ------------------------------------------------------------ JSON values
\* A JSON value is a record of one shape: t is "null", "str", "num" or "obj",
\* s the text of a scalar, kv the members of an object in insertion order.
JNull == [t |-> "null", s |-> "null", kv |-> <<>>]
JStr(x) == [t |-> "str", s |-> x, kv |-> <<>>]
JNum(n) == [t |-> "num", s |-> ToString(n), kv |-> <<>>]
JObj(members) == [t |-> "obj", s |-> "", kv |-> members]
Member(key, value) == [k |-> key, v |-> value]

RECURSIVE JSONstringify(_)
RECURSIVE StringifyMembers(_)
\* JSON.stringify: the members of an object in insertion order.
JSONstringify(j) ==
    IF j.t = "obj" THEN <<"{">> \o StringifyMembers(j.kv) \o <<"}">>
    ELSE <<j.s>>
StringifyMembers(members) ==
    IF members = <<>> THEN <<>>
    ELSE <<Head(members).k>> \o JSONstringify(Head(members).v)
         \o StringifyMembers(Tail(members))

\* ------------------------------------------------------- fingerprint store
NoHash == <<>>   \* the empty string

\* sha256(...).digest("hex"): collision-free, so the digest is its preimage
\* under a tag.  It is never the empty string.
hashData(data) == <<"sha256">> \o JSONstringify(data)

loadHash(file) == IF file.exists THEN file.content ELSE NoHash

\* A wrong saveHash, which leaves the file as it was.
keepFile(file, hash) == file

saveHash(file, hash) == [exists |-> TRUE, content |-> hash]

\* ---------------------------------------------------------------- inputs
\* One category with one item; the socket variants receive no timestamps.
StockOf(qty) ==
    JObj(<<Member("gear", JObj(<<Member("quantity", JNum(qty))>>))>>)
Stocks == {StockOf(q) : q \in 1..MaxQty}

\* fetchWeather: res.data, or null when the request failed.
Weathers == {JNull, JObj(<<Member("description", JStr("Rain"))>>)}

\* ----------------------------------------------------------- cycle records
IdleCycle ==
    [pc |-> "idle", hash |-> NoHash, lastHash |-> NoHash,
     i |-> 0, next |-> 0, outcome |-> "none", fault |-> FALSE]

InFlight == {c \in CycleIds : cycles[c].pc \notin {"idle", "done"}}

\* What is remembered of a finished invocation: its outcome, whether any of
\* its calls failed and, when it posted, found no change or failed to publish,
\* its fingerprint.  Nothing is remembered once two invocations have
\* overlapped: the history serves the claims about cycles that run one after
\* the other.
Forgotten == [IdleCycle EXCEPT !.pc = "done"]

\* A new invocation of checkAndPost.
StartCycle(firstPc, last) ==
    /\ started < MaxCycles
    /\ Cardinality(InFlight) < MaxInFlight
    /\ started' = started + 1
    /\ overlapped' = (overlapped \/ InFlight # {})
    /\ cycles' = [c \in CycleIds |->
                    IF c = started + 1
                    THEN [IdleCycle EXCEPT !.pc = firstPc, !.lastHash = last]
                    ELSE IF cycles[c].pc = "done" /\ InFlight # {}
                         THEN Forgotten
                         ELSE cycles[c]]

Done(rec, outcome, fault) ==
    IF overlapped
    THEN Forgotten
    ELSE [rec EXCEPT !.pc = "done", !.outcome = outcome, !.i = 0,
                     !.lastHash = NoHash, !.fault = (@ \/ fault),
                     !.hash = IF outcome \in {"posted", "nochange", "publish_failed"}
                              THEN @ ELSE NoHash]

\* History: what storing fingerprint h does to lastPost.
AfterStore(h) == IF lastPost = h THEN lastPost ELSE NoHash

NoCall == [fn |-> "none", arg |-> <<>>, returned |-> FALSE, result |-> <<>>]

NoSocket == [variant |-> "none"]

Init0 ==
    /\ hashFile \in {[exists |-> FALSE, content |-> NoHash],
                     [exists |-> TRUE, content |-> NoHash]}
    /\ cycles = [c \in CycleIds |-> IdleCycle]
    /\ started = 0
    /\ longLivedToken \in BOOLEAN
    /\ overlapped = FALSE
    /\ triggerOverlap = FALSE
    /\ lastPost = NoHash
    /\ call = NoCall
    /\ ws = NoSocket

\* ==================================================== src/index.js 1-269
retries == 3   \* postToFacebook(message, retries = 3)

\* Two wrong comparisons, against which the properties of the decision are
\* checked: one finds every snapshot changed, one finds nothing changed while
\* the store is empty.
AlwaysChanged(hash, lastHash) == TRUE
ChangedUnlessEmpty(hash, lastHash) == hash # lastHash /\ lastHash # NoHash

\* if (hash === lastHash) return;
HashChanged(hash, lastHash) == hash # lastHash

\* A wrong object, which leaves the weather out.
StockOnly(stock, weather) == JObj(<<Member("stock", stock)>>)

\* JSON.stringify({ stock, weather })
StockAndWeather(stock, weather) ==
    JObj(<<Member("stock", stock), Member("weather", weather)>>)

\* A wrong skip, after which the hash is not saved.
EnterPostSkipUnsaved(c, rec) ==
    \E media \in BOOLEAN :
        /\ cycles' = [cycles EXCEPT ![c] =
                         IF media THEN [rec EXCEPT !.pc = "posting", !.i = 0]
                         ELSE Done(rec, "skipped", TRUE)]
        /\ UNCHANGED <<hashFile, lastPost>>

\* postToFacebook once the token is known to be non-empty: without the image
\* it returns at once and checkAndPost goes on to saveHash.
EnterPost(c, rec) ==
    \E media \in BOOLEAN :
        IF media
        THEN /\ cycles' = [cycles EXCEPT ![c] = [rec EXCEPT !.pc = "posting", !.i = 0]]
             /\ UNCHANGED <<hashFile, lastPost>>
        ELSE /\ cycles' = [cycles EXCEPT ![c] = Done(rec, "skipped", TRUE)]
             /\ hashFile' = saveHash(hashFile, rec.hash)
             /\ lastPost' = AfterStore(rec.hash)

\* cron.schedule("*/5 * * * *", ...): node-cron calls the callback at every
\* boundary, whatever became of the previous call.
CronTick ==
    /\ StartCycle("fetching", NoHash)
    /\ triggerOverlap' = FALSE
    /\ UNCHANGED <<hashFile, longLivedToken, call, ws, lastPost, sched, timer>>

\* app.post("/trigger"): the handler calls checkAndPost at once.
ManualTrigger ==
    /\ StartCycle("fetching", NoHash)
    /\ triggerOverlap' = (InFlight # {})
    /\ UNCHANGED <<hashFile, longLivedToken, call, ws, lastPost, sched, timer>>

\* getStockData rejects (timeout after 8000 ms, connection error, message
\* that is no JSON): Promise.all rejects and checkAndPost logs the error.
GetStockDataRejected(c) ==
    /\ cycles[c].pc = "fetching"
    /\ cycles' = [cycles EXCEPT ![c] = Done(@, "fetch_failed", TRUE)]
    /\ triggerOverlap' = FALSE
    /\ UNCHANGED <<hashFile, started, longLivedToken, call, ws, overlapped, lastPost, sched, timer>>

\* Promise.all resolves: hash, compare, compose, call postToFacebook.
\* composeOk: building the message (summarizeSection ... getDailyTip, which
\* reads tips.json) returned rather than threw.
FetchResolvedWith(c, stock, weather, composeOk) ==
    /\ cycles[c].pc = "fetching"
    /\ LET hash == hashData(StockAndWeather(stock, weather))
           lastHash == loadHash(hashFile)
           rec == [cycles[c] EXCEPT !.hash = hash]
       IN IF ~HashChanged(hash, lastHash)
          THEN /\ cycles' = [cycles EXCEPT ![c] = Done(rec, "nochange", FALSE)]
               /\ UNCHANGED <<hashFile, lastPost>>
          ELSE IF ~composeOk
               THEN /\ cycles' = [cycles EXCEPT ![c] = Done(rec, "compose_failed", TRUE)]
                    /\ UNCHANGED <<hashFile, lastPost>>
               ELSE IF longLivedToken
                    THEN EnterPost(c, rec)
                    ELSE /\ cycles' = [cycles EXCEPT ![c] = [rec EXCEPT !.pc = "exchanging"]]
                         /\ UNCHANGED <<hashFile, lastPost>>
    /\ triggerOverlap' = FALSE
    /\ UNCHANGED stepFrame

FetchResolved(c) ==
    \E stock \in Stocks, weather \in Weathers, composeOk \in BOOLEAN :
        FetchResolvedWith(c, stock, weather, composeOk)

\* getOrExchangeLongLivedToken: the exchange request settles.  It has no
\* try/catch here: an error propagates to the catch of checkAndPost.
ExchangeSettled(c) ==
    /\ cycles[c].pc = "exchanging"
    /\ \E result \in {"token", "empty", "error"} :
         CASE result = "error" ->
                /\ cycles' = [cycles EXCEPT ![c] = Done(@, "token_failed", TRUE)]
                /\ UNCHANGED <<hashFile, lastPost>>
           [] result = "empty" ->
                /\ cycles' = [cycles EXCEPT ![c] = Done(@, "skipped", TRUE)]
                /\ hashFile' = saveHash(hashFile, cycles[c].hash)
                /\ lastPost' = AfterStore(cycles[c].hash)
           [] OTHER -> EnterPost(c, cycles[c])
    /\ triggerOverlap' = FALSE
    /\ UNCHANGED stepFrame

\* axios.post resolves: postToFacebook returns, checkAndPost saves the hash.
PostAccepted(c) ==
    /\ cycles[c].pc = "posting"
    /\ cycles' = [cycles EXCEPT ![c] = Done(@, "posted", FALSE)]
    /\ hashFile' = saveHash(hashFile, cycles[c].hash)
    /\ lastPost' = cycles[c].hash
    /\ triggerOverlap' = FALSE
    /\ UNCHANGED stepFrame

\* A wrong loop, which tries again at once.
PostRejectedNoWait(c) ==
    /\ cycles[c].pc = "posting"
    /\ IF cycles[c].i = retries - 1
       THEN cycles' = [cycles EXCEPT ![c] = Done(@, "publish_failed", TRUE)]
       ELSE cycles' = [cycles EXCEPT ![c] = [@ EXCEPT !.i = @ + 1, !.fault = TRUE]]
    /\ triggerOverlap' = FALSE
    /\ UNCHANGED <<hashFile, started, longLivedToken, call, ws, overlapped, lastPost, sched, timer>>

\* axios.post rejects: the last attempt rethrows, the others wait
\* 2000 * (i + 1) ms (the wait is kept in next).
PostRejected(c) ==
    /\ cycles[c].pc = "posting"
    /\ IF cycles[c].i = retries - 1
       THEN cycles' = [cycles EXCEPT ![c] = Done(@, "publish_failed", TRUE)]
       ELSE cycles' = [cycles EXCEPT ![c] = [@ EXCEPT !.pc = "backoff", !.fault = TRUE,
                                                      !.next = 2000 * (cycles[c].i + 1)]]
    /\ triggerOverlap' = FALSE
    /\ UNCHANGED <<hashFile, started, longLivedToken, call, ws, overlapped, lastPost, sched, timer>>

BackoffElapsed(c) ==
    /\ cycles[c].pc = "backoff"
    /\ cycles' = [cycles EXCEPT ![c] = [@ EXCEPT !.pc = "posting", !.i = @ + 1, !.next = 0]]
    /\ triggerOverlap' = FALSE
    /\ UNCHANGED <<hashFile, started, longLivedToken, call, ws, overlapped, lastPost, sched, timer>>

Init ==
    /\ Init0
    /\ sched = "cron"
    /\ timer = -1

Next ==
    \/ CronTick
    \/ ManualTrigger
    \/ \E c \in CycleIds : GetStockDataRejected(c)
    \/ \E c \in CycleIds : FetchResolved(c)
    \/ \E c \in CycleIds : ExchangeSettled(c)
    \/ \E c \in CycleIds : PostAccepted(c)
    \/ \E c \in CycleIds : PostRejected(c)
    \/ \E c \in CycleIds : BackoffElapsed(c)

Spec == Init /\ [][Next]_vars

\* ================================================= src/README.md 22-340
\* fetchPvBStock: { seed, gear, updatedAt }, or { seed: [], gear: [] } when
\* the request failed.
PvbOf(qty) ==
    JObj(<<Member("seed", JNum(qty)), Member("gear", JNum(qty)),
           Member("updatedAt", JNum(qty))>>)
PvbFallback == JObj(<<Member("seed", JStr("[]")), Member("gear", JStr("[]"))>>)
Pvbs == {PvbFallback, PvbOf(1)}

\* JSON.stringify({ stock, weather, pvb })
StockWeatherPvb(stock, weather, pvb) ==
    JObj(<<Member("stock", stock), Member("weather", weather), Member("pvb", pvb)>>)

\* What a step of an invocation leaves alone, but for the scheduler.
ivFrame == <<started, longLivedToken, call, ws, overlapped, triggerOverlap, timer>>

\* setTimeout(async () => { await checkAndPost(); setInterval(...) }, delay):
\* the interval is armed by the continuation of the first invocation.
ArmInterval(c) ==
    sched' = IF cycles'[c].pc = "done" /\ sched = "awaiting" THEN "interval" ELSE sched

\* The start-up timeout fires: the first invocation; checkAndPost reads the
\* fingerprint file before its first await.
FirstTimeoutFires ==
    /\ sched = "timeout"
    /\ StartCycle("fetching", loadHash(hashFile))
    /\ sched' = "awaiting"
    /\ UNCHANGED <<hashFile, longLivedToken, call, ws, triggerOverlap, lastPost, timer>>

\* setInterval(checkAndPost, DEFAULT_CHECK_INTERVAL_MS) fires.
IntervalTick ==
    /\ sched = "interval"
    /\ StartCycle("fetching", loadHash(hashFile))
    /\ UNCHANGED <<hashFile, longLivedToken, call, ws, triggerOverlap, lastPost, sched, timer>>

\* getStockData has no timeout: a server that never sends a message nor an
\* error leaves the promise, and the invocation, pending for ever.
ReadmeStockNeverAnswers(c) ==
    /\ cycles[c].pc = "fetching"
    /\ cycles' = [cycles EXCEPT ![c] = [@ EXCEPT !.pc = "hung"]]
    /\ UNCHANGED <<hashFile, lastPost, sched, ivFrame>>

ReadmeStockRejected(c) ==
    /\ cycles[c].pc = "fetching"
    /\ cycles' = [cycles EXCEPT ![c] = Done(@, "fetch_failed", TRUE)]
    /\ ArmInterval(c)
    /\ UNCHANGED <<hashFile, lastPost, ivFrame>>

\* postToFacebook once the token is known to be non-empty.
ReadmeEnterPost(c, rec) ==
    \E media \in BOOLEAN :
        IF media
        THEN /\ cycles' = [cycles EXCEPT ![c] = [rec EXCEPT !.pc = "posting"]]
             /\ UNCHANGED <<hashFile, lastPost>>
        ELSE /\ cycles' = [cycles EXCEPT ![c] = Done(rec, "skipped", TRUE)]
             /\ hashFile' = saveHash(hashFile, rec.hash)
             /\ lastPost' = AfterStore(rec.hash)

\* Promise.all resolves; the comparison uses the lastHash read at the start.
ReadmeFetchResolved(c) ==
    /\ cycles[c].pc = "fetching"
    /\ \E stock \in Stocks, weather \in Weathers, pvb \in Pvbs :
         LET newHash == hashData(StockWeatherPvb(stock, weather, pvb))
             rec == [cycles[c] EXCEPT !.hash = newHash]
         IN IF ~HashChanged(newHash, cycles[c].lastHash)
            THEN /\ cycles' = [cycles EXCEPT ![c] = Done(rec, "nochange", FALSE)]
                 /\ UNCHANGED <<hashFile, lastPost>>
            ELSE \E composeOk \in BOOLEAN :
                   IF ~composeOk
                   THEN /\ cycles' = [cycles EXCEPT ![c] = Done(rec, "compose_failed", TRUE)]
                        /\ UNCHANGED <<hashFile, lastPost>>
                   ELSE IF longLivedToken
                        THEN ReadmeEnterPost(c, rec)
                        ELSE /\ cycles' = [cycles EXCEPT ![c] = [rec EXCEPT !.pc = "exchanging"]]
                             /\ UNCHANGED <<hashFile, lastPost>>
    /\ ArmInterval(c)
    /\ UNCHANGED ivFrame

\* getOrExchangeLongLivedToken catches its error and returns null:
\* postToFacebook returns and checkAndPost saves the hash.
ReadmeExchangeSettled(c) ==
    /\ cycles[c].pc = "exchanging"
    /\ \E ok \in BOOLEAN :
         IF ok
         THEN ReadmeEnterPost(c, cycles[c])
         ELSE /\ cycles' = [cycles EXCEPT ![c] = Done(@, "skipped", TRUE)]
              /\ hashFile' = saveHash(hashFile, cycles[c].hash)
              /\ lastPost' = AfterStore(cycles[c].hash)
    /\ ArmInterval(c)
    /\ UNCHANGED ivFrame

ReadmePostAccepted(c) ==
    /\ cycles[c].pc = "posting"
    /\ cycles' = [cycles EXCEPT ![c] = Done(@, "posted", FALSE)]
    /\ hashFile' = saveHash(hashFile, cycles[c].hash)
    /\ lastPost' = cycles[c].hash
    /\ ArmInterval(c)
    /\ UNCHANGED ivFrame

\* axios.post rejects: postToFacebook logs the error and returns normally,
\* and checkAndPost saves the hash.
ReadmePostRejected(c) ==
    /\ cycles[c].pc = "posting"
    /\ cycles' = [cycles EXCEPT ![c] = Done(@, "publish_failed", TRUE)]
    /\ hashFile' = saveHash(hashFile, cycles[c].hash)
    /\ lastPost' = AfterStore(cycles[c].hash)
    /\ ArmInterval(c)
    /\ UNCHANGED ivFrame

InitInterval ==
    /\ Init0
    /\ sched = "timeout"
    /\ timer = -1

NextInterval ==
    \/ FirstTimeoutFires
    \/ IntervalTick
    \/ \E c \in CycleIds : ReadmeStockNeverAnswers(c)
    \/ \E c \in CycleIds : ReadmeStockRejected(c)
    \/ \E c \in CycleIds : ReadmeFetchResolved(c)
    \/ \E c \in CycleIds : ReadmeExchangeSettled(c)
    \/ \E c \in CycleIds : ReadmePostAccepted(c)
    \/ \E c \in CycleIds : ReadmePostRejected(c)

SpecInterval == InitInterval /\ [][NextInterval]_vars

\* ====================================== src/unnamed/part_002 249-482
DEFAULT_CHECK_INTERVAL_MS == 30 * 1000

JUndefined == [t |-> "undefined", s |-> "undefined", kv |-> <<>>]

\* obj[key], or obj?.[key] when obj is undefined
Get(j, key) ==
    IF j.t = "obj" /\ \E n \in 1..Len(j.kv) : j.kv[n].k = key
    THEN j.kv[CHOOSE n \in 1..Len(j.kv) : j.kv[n].k = key].v
    ELSE JUndefined

\* delete obj[key]; a no-op on what is not an object
DeleteKey(j, key) ==
    IF j.t = "obj" THEN [j EXCEPT !.kv = SelectSeq(@, LAMBDA m : m.k # key)] ELSE j

\* The countdown texts of the feed, "HHh MMm SSs".
Pad2(n) == IF n < 10 THEN "0" \o ToString(n) ELSE ToString(n)
CountdownText(f) == Pad2(f.h) \o "h " \o Pad2(f.m) \o "m " \o Pad2(f.s) \o "s"
CountdownForms == [h : {0}, m : 0..1, s : 0..MaxCountdown]

\* The texts the regular expression matches give (h*3600 + m*60 + s) * 1000;
\* undefined and every other text give 0.
parseCountdown(countdown) ==
    IF countdown.t = "str" /\ \E f \in CountdownForms : CountdownText(f) = countdown.s
    THEN LET f == CHOOSE g \in CountdownForms : CountdownText(g) = countdown.s
         IN (f.h * 3600 + f.m * 60 + f.s) * 1000
    ELSE 0

\* A wrong cleaning, which removes the countdowns too.
cleanStockAndCountdowns(stock) ==
    LET clone == DeleteKey(stock, "updated_at")
    IN [clone EXCEPT !.kv = [n \in 1..Len(clone.kv) |->
                                Member(clone.kv[n].k,
                                       DeleteKey(DeleteKey(clone.kv[n].v, "updated_at"),
                                                 "countdown"))]]

cleanStockForHashing(stock) ==
    LET clone == DeleteKey(stock, "updated_at")
    IN [clone EXCEPT !.kv = [n \in 1..Len(clone.kv) |->
                                Member(clone.kv[n].k, DeleteKey(clone.kv[n].v, "updated_at"))]]

\* A category of the feed, and the feeds the model draws: the gear category
\* always there, the seed category there or missing.
Section(qty, countdown, stamp) ==
    JObj(<<Member("quantity", JNum(qty)), Member("countdown", JStr(countdown)),
           Member("updated_at", JNum(stamp))>>)
GearSections ==
    {Section(q, CountdownText([h |-> 0, m |-> 0, s |-> sec]), u) :
        q \in 1..MaxQty, sec \in 0..MaxCountdown, u \in 1..MaxStamp}
SeedSection == Section(1, CountdownText([h |-> 0, m |-> 1, s |-> 0]), 1)
ExpiredSeedSection == Section(1, CountdownText([h |-> 0, m |-> 0, s |-> 0]), 1)
AdaptiveStocks ==
    {JObj(<<Member("gear", g), Member("updated_at", Get(g, "updated_at"))>>) : g \in GearSections}
    \cup {JObj(<<Member("gear", g), Member("seed", SeedSection)>>) : g \in GearSections}
    \cup {JObj(<<Member("gear", g), Member("seed", ExpiredSeedSection)>>) : g \in GearSections}

\* A wrong list, which keeps the zeros.
CountdownsUnfiltered(stock) ==
    {parseCountdown(Get(Get(stock, key), "countdown")) : key \in {"gear", "seed"}}

\* [parseCountdown(stock.gear?.countdown), ...].filter(ms => ms > 0)
Countdowns(stock) ==
    {parseCountdown(Get(Get(stock, key), "countdown")) : key \in {"gear", "seed"}} \ {0}
Min(S) == CHOOSE x \in S : \A y \in S : x <= y

\* summarizeSection(title, icon, section) reads section.items: a TypeError
\* when the category is missing.
ComposeThrows(stock) == \E key \in {"gear", "seed"} : Get(stock, key).t # "obj"

\* checkAndPost returns nextCheckInterval and runCheck arms the timer; the
\* model keeps the path taken, no fingerprint, of a finished invocation.
\* A wrong return, which arms the 1000 ms floor whatever was computed.
ReturnFloor(c, outcome, interval) ==
    /\ cycles' = [cycles EXCEPT ![c] = [Forgotten EXCEPT !.outcome = outcome]]
    /\ timer' = 1000

Return(c, outcome, interval) ==
    /\ cycles' = [cycles EXCEPT ![c] = [Forgotten EXCEPT !.outcome = outcome]]
    /\ timer' = interval

adFrame == <<started, longLivedToken, call, ws, overlapped, triggerOverlap, sched>>

\* A wrong startAutoPoster, without its flag.
StartAutoPosterUnguarded ==
    /\ sched \in {"stopped", "running"}
    /\ sched' = "running"
    /\ StartCycle("fetching", NoHash)
    /\ UNCHANGED <<hashFile, longLivedToken, call, ws, triggerOverlap, lastPost, timer>>

\* startAutoPoster, called by the app.listen callback: if (isRunning) return;
\* otherwise isRunning = true and runCheck calls checkAndPost.
StartAutoPoster ==
    IF sched = "running"
    THEN UNCHANGED vars
    ELSE /\ sched = "stopped"
         /\ sched' = "running"
         /\ StartCycle("fetching", NoHash)
         /\ UNCHANGED <<hashFile, longLivedToken, call, ws, triggerOverlap, lastPost, timer>>

\* setTimeout(runCheck, nextInterval) fires.
TimerFires ==
    /\ timer >= 0
    /\ timer' = -1
    /\ StartCycle("fetching", NoHash)
    /\ UNCHANGED <<hashFile, longLivedToken, call, ws, triggerOverlap, lastPost, sched>>

\* axios.get(CONFIG.STOCK_URL) has no timeout option.
AdFetchNeverAnswers(c) ==
    /\ cycles[c].pc = "fetching"
    /\ cycles' = [cycles EXCEPT ![c] = [@ EXCEPT !.pc = "hung"]]
    /\ UNCHANGED <<hashFile, lastPost, timer, adFrame>>

AdFetchRejected(c) ==
    /\ cycles[c].pc = "fetching"
    /\ Return(c, "fetch_failed", DEFAULT_CHECK_INTERVAL_MS)
    /\ UNCHANGED <<hashFile, lastPost, adFrame>>

\* postToFacebook with a token: the missing image is an error thrown and
\* caught inside postToFacebook, after which checkAndPost saves the hash.
AdEnterPost(c, rec) ==
    \E image \in BOOLEAN :
        IF image
        THEN /\ cycles' = [cycles EXCEPT ![c] = [rec EXCEPT !.pc = "posting"]]
             /\ UNCHANGED <<hashFile, lastPost, timer>>
        ELSE /\ Return(c, "skipped", rec.next)
             /\ hashFile' = saveHash(hashFile, rec.hash)
             /\ lastPost' = AfterStore(rec.hash)

AdFetchResolvedWith(c, stock) ==
    /\ cycles[c].pc = "fetching"
    /\   IF Countdowns(stock) = {}
         THEN /\ Return(c, "nocountdown", 1000)
              /\ UNCHANGED <<hashFile, lastPost>>
         ELSE LET nextCheckInterval == Min(Countdowns(stock)) + 1000
                  stockHash == hashData(cleanStockForHashing(stock))
                  prevStockHash == loadHash(hashFile)
                  rec == [cycles[c] EXCEPT !.hash = stockHash, !.next = nextCheckInterval]
              IN IF ~HashChanged(stockHash, prevStockHash)
                 THEN /\ Return(c, "nochange", nextCheckInterval)
                      /\ UNCHANGED <<hashFile, lastPost>>
                 ELSE IF ComposeThrows(stock)
                      THEN /\ Return(c, "compose_failed", nextCheckInterval)
                           /\ UNCHANGED <<hashFile, lastPost>>
                      ELSE IF longLivedToken
                           THEN AdEnterPost(c, rec)
                           ELSE /\ cycles' = [cycles EXCEPT ![c] = [rec EXCEPT !.pc = "exchanging"]]
                                /\ UNCHANGED <<hashFile, lastPost, timer>>
    /\ UNCHANGED adFrame

AdFetchResolved(c) == \E stock \in AdaptiveStocks : AdFetchResolvedWith(c, stock)

\* The exchanged token goes to the .env file, never to CONFIG; a failed
\* exchange gives null, postToFacebook returns and the hash is saved.
AdExchangeSettled(c) ==
    /\ cycles[c].pc = "exchanging"
    /\ \E ok \in BOOLEAN :
         IF ok
         THEN AdEnterPost(c, cycles[c])
         ELSE /\ Return(c, "skipped", cycles[c].next)
              /\ hashFile' = saveHash(hashFile, cycles[c].hash)
              /\ lastPost' = AfterStore(cycles[c].hash)
    /\ UNCHANGED adFrame

AdPostAccepted(c) ==
    /\ cycles[c].pc = "posting"
    /\ Return(c, "posted", cycles[c].next)
    /\ hashFile' = saveHash(hashFile, cycles[c].hash)
    /\ lastPost' = cycles[c].hash
    /\ UNCHANGED adFrame

AdPostRejected(c) ==
    /\ cycles[c].pc = "posting"
    /\ Return(c, "publish_failed", cycles[c].next)
    /\ hashFile' = saveHash(hashFile, cycles[c].hash)
    /\ lastPost' = AfterStore(cycles[c].hash)
    /\ UNCHANGED adFrame

InitAdaptive ==
    /\ Init0
    /\ sched = "stopped"
    /\ timer = -1

NextAdaptive ==
    \/ StartAutoPoster
    \/ TimerFires
    \/ \E c \in CycleIds : AdFetchNeverAnswers(c)
    \/ \E c \in CycleIds : AdFetchRejected(c)
    \/ \E c \in CycleIds : AdFetchResolved(c)
    \/ \E c \in CycleIds : AdExchangeSettled(c)
    \/ \E c \in CycleIds : AdPostAccepted(c)
    \/ \E c \in CycleIds : AdPostRejected(c)

SpecAdaptive == InitAdaptive /\ [][NextAdaptive]_vars

\* ====================================== src/unnamed/part_004 222-313
\* Two feeds, each with its fingerprint file: hashFile is here the pair of
\* files, timer the number of pending setTimeout(postPlantsVsBrainrots, 30000).
\* An invocation whose promise is rejected with nobody awaiting it ends with
\* pc "rejected": an unhandled promise rejection.
FeedPc(feed, pc) == IF feed = "pvb" THEN "pvb_" \o pc ELSE pc

sepFrame == <<started, longLivedToken, call, ws, overlapped, triggerOverlap, lastPost, sched>>

\* An error thrown in a feed function: postGrowAGarden is awaited inside the
\* try of checkAndPostSeparated, postPlantsVsBrainrots is called by a timer.
Thrown(feed, outcome) ==
    IF feed = "gag" THEN [Forgotten EXCEPT !.outcome = outcome]
    ELSE [Forgotten EXCEPT !.pc = "rejected", !.outcome = outcome]

\* A wrong return, after which no timer is armed.
ReturnedUnarmed(c, feed, outcome) ==
    /\ cycles' = [cycles EXCEPT ![c] = [Forgotten EXCEPT !.outcome = outcome]]
    /\ timer' = timer

\* The feed function returns; after postGrowAGarden, checkAndPostSeparated
\* arms the timer of the second feed.
Returned(c, feed, outcome) ==
    /\ cycles' = [cycles EXCEPT ![c] = [Forgotten EXCEPT !.outcome = outcome]]
    /\ timer' = IF feed = "gag" THEN timer + 1 ELSE timer

\* A wrong save, which writes the file of the first feed for both.
SaveSharedAndReturn(c, feed, outcome) ==
    /\ hashFile' = [hashFile EXCEPT !["gag"] = saveHash(@, cycles[c].hash)]
    /\ Returned(c, feed, outcome)

\* saveHash(file, newHash), where fs.writeFileSync may throw, and return.
SaveAndReturn(c, feed, outcome) ==
    \E written \in BOOLEAN :
        IF written
        THEN /\ hashFile' = [hashFile EXCEPT ![feed] = saveHash(@, cycles[c].hash)]
             /\ Returned(c, feed, outcome)
        ELSE /\ cycles' = [cycles EXCEPT ![c] = Thrown(feed, "write_failed")]
             /\ UNCHANGED <<hashFile, timer>>

\* A feed function is called and runs to its first await: loadHash, where
\* fs.readFileSync may throw.
SepStart(feed) ==
    /\ started < MaxCycles
    /\ Cardinality(InFlight) < MaxInFlight
    /\ started' = started + 1
    /\ overlapped' = (overlapped \/ InFlight # {})
    /\ \E read \in BOOLEAN :
         cycles' = [cycles EXCEPT ![started + 1] =
                       IF read
                       THEN [IdleCycle EXCEPT !.pc = FeedPc(feed, "fetching"),
                                              !.lastHash = loadHash(hashFile[feed])]
                       ELSE Thrown(feed, "read_failed")]

\* The start-up timeout or the interval fires: checkAndPostSeparated.
SepTick ==
    /\ SepStart("gag")
    /\ UNCHANGED <<hashFile, longLivedToken, call, ws, triggerOverlap, lastPost, sched, timer>>

\* setTimeout(postPlantsVsBrainrots, 30000) fires.
PvbTimerFires ==
    /\ timer > 0
    /\ timer' = timer - 1
    /\ SepStart("pvb")
    /\ UNCHANGED <<hashFile, longLivedToken, call, ws, triggerOverlap, lastPost, sched>>

\* postMediaToFacebook with a token: without a media file,
\* mediaFile.endsWith throws inside the try, is logged as a failed post, and
\* the feed function saves the hash.
SepEnterPost(c, feed, rec) ==
    \E media \in BOOLEAN :
        IF media
        THEN /\ cycles' = [cycles EXCEPT ![c] = [rec EXCEPT !.pc = FeedPc(feed, "posting")]]
             /\ UNCHANGED <<hashFile, timer>>
        ELSE \E written \in BOOLEAN :
               IF written
               THEN /\ hashFile' = [hashFile EXCEPT ![feed] = saveHash(@, rec.hash)]
                    /\ Returned(c, feed, "media_error")
               ELSE /\ cycles' = [cycles EXCEPT ![c] = Thrown(feed, "write_failed")]
                    /\ UNCHANGED <<hashFile, timer>>

\* The fetch of a feed settles.  getStockData may reject; fetchPvBStock
\* catches its errors and gives { seed: [], gear: [] }.
SepFetchSettled(c, feed, data, composeOk) ==
    /\ cycles[c].pc = FeedPc(feed, "fetching")
    /\ LET newHash == hashData(data)
           rec == [cycles[c] EXCEPT !.hash = newHash]
       IN IF ~HashChanged(newHash, cycles[c].lastHash)
          THEN /\ Returned(c, feed, "nochange")
               /\ UNCHANGED hashFile
          ELSE IF ~composeOk
               THEN /\ cycles' = [cycles EXCEPT ![c] = Thrown(feed, "compose_failed")]
                    /\ UNCHANGED <<hashFile, timer>>
               ELSE IF longLivedToken
                    THEN SepEnterPost(c, feed, rec)
                    ELSE /\ cycles' = [cycles EXCEPT ![c] =
                                          [rec EXCEPT !.pc = FeedPc(feed, "exchanging")]]
                         /\ UNCHANGED <<hashFile, timer>>
    /\ UNCHANGED sepFrame

GagFetchSettled(c) ==
    \E stock \in Stocks, weather \in Weathers, composeOk \in BOOLEAN :
        SepFetchSettled(c, "gag", StockAndWeather(stock, weather), composeOk)

GagFetchRejected(c) ==
    /\ cycles[c].pc = "fetching"
    /\ cycles' = [cycles EXCEPT ![c] = Thrown("gag", "fetch_failed")]
    /\ UNCHANGED <<hashFile, timer, sepFrame>>

\* Nothing in the message of the second feed throws.
PvbFetchSettled(c) == \E pvb \in Pvbs : SepFetchSettled(c, "pvb", pvb, TRUE)

\* getOrExchangeLongLivedToken catches its error and returns null.
SepExchangeSettled(c, feed) ==
    /\ cycles[c].pc = FeedPc(feed, "exchanging")
    /\ \E ok \in BOOLEAN :
         IF ok THEN SepEnterPost(c, feed, cycles[c])
         ELSE SaveAndReturn(c, feed, "skipped")
    /\ UNCHANGED sepFrame

\* axios.post settles; a rejection is caught and logged by
\* postMediaToFacebook.
SepPostSettled(c, feed) ==
    /\ cycles[c].pc = FeedPc(feed, "posting")
    /\ \E accepted \in BOOLEAN :
         SaveAndReturn(c, feed, IF accepted THEN "posted" ELSE "publish_failed")
    /\ UNCHANGED sepFrame

InitSeparated ==
    /\ hashFile \in [{"gag", "pvb"} -> {[exists |-> FALSE, content |-> NoHash]}]
    /\ cycles = [c \in CycleIds |-> IdleCycle]
    /\ started = 0
    /\ longLivedToken \in BOOLEAN
    /\ overlapped = FALSE
    /\ triggerOverlap = FALSE
    /\ lastPost = NoHash
    /\ call = NoCall
    /\ ws = NoSocket
    /\ sched = "interval"
    /\ timer = 0

NextSeparated ==
    \/ SepTick
    \/ PvbTimerFires
    \/ \E c \in CycleIds : GagFetchSettled(c)
    \/ \E c \in CycleIds : GagFetchRejected(c)
    \/ \E c \in CycleIds : PvbFetchSettled(c)
    \/ \E c \in CycleIds, feed \in {"gag", "pvb"} : SepExchangeSettled(c, feed)
    \/ \E c \in CycleIds, feed \in {"gag", "pvb"} : SepPostSettled(c, feed)

SpecSeparated == InitSeparated /\ [][NextSeparated]_vars

\* ====================================== src/unnamed/part_001 132-276
\* getStockData over HTTP: res.data, or {} when the request failed or timed
\* out after 8000 ms.
EmptyObject == JObj(<<>>)
HttpStocks == Stocks \cup {EmptyObject}

\* Promise.all resolves, whatever the requests did: both getters catch their
\* errors.  The publisher and the scheduler are those of README.md.
HttpFetchSettledWith(c, stock, weather) ==
    /\ cycles[c].pc = "fetching"
    /\ LET newHash == hashData(StockAndWeather(stock, weather))
           rec == [cycles[c] EXCEPT !.hash = newHash,
                                    !.fault = (stock = EmptyObject)]
       IN IF ~HashChanged(newHash, cycles[c].lastHash)
          THEN /\ cycles' = [cycles EXCEPT ![c] = Done(rec, "nochange", FALSE)]
               /\ UNCHANGED <<hashFile, lastPost>>
          ELSE IF longLivedToken
               THEN ReadmeEnterPost(c, rec)
               ELSE /\ cycles' = [cycles EXCEPT ![c] = [rec EXCEPT !.pc = "exchanging"]]
                    /\ UNCHANGED <<hashFile, lastPost>>
    /\ ArmInterval(c)
    /\ UNCHANGED ivFrame

HttpFetchSettled(c) ==
    \E stock \in HttpStocks, weather \in Weathers :
        HttpFetchSettledWith(c, stock, weather)

\* The token exchange and the post carry no timeout.
HttpPublishNeverAnswers(c) ==
    /\ cycles[c].pc \in {"exchanging", "posting"}
    /\ cycles' = [cycles EXCEPT ![c] = [@ EXCEPT !.pc = "hung"]]
    /\ UNCHANGED <<hashFile, lastPost, sched, ivFrame>>

NextHttp ==
    \/ FirstTimeoutFires
    \/ IntervalTick
    \/ \E c \in CycleIds : HttpFetchSettled(c)
    \/ \E c \in CycleIds : HttpPublishNeverAnswers(c)
    \/ \E c \in CycleIds : ReadmeExchangeSettled(c)
    \/ \E c \in CycleIds : ReadmePostAccepted(c)
    \/ \E c \in CycleIds : ReadmePostRejected(c)

SpecHttp == InitInterval /\ [][NextHttp]_vars

\* ====================================== src/unnamed/part_000 135-373
\* The scheduler, the token exchange and the publisher are those of
\* src/README.md; the fingerprint is of { stock, weather } and checkAndPost
\* begins with resetCountdownIfSundayMorning.
\* new Date(getPHDate()) at the start of an invocation: around the window of
\* the reset, and away from it.
StartClocks ==
    {[day |-> 0, hour |-> 0, min |-> 0], [day |-> 0, hour |-> 0, min |-> 4],
     [day |-> 0, hour |-> 0, min |-> 5], [day |-> 0, hour |-> 1, min |-> 0],
     [day |-> 1, hour |-> 0, min |-> 0], [day |-> 6, hour |-> 23, min |-> 59]}

\* A wrong reset, which never writes.
resetNever(now, file) == file

\* fs.writeFileSync(CONFIG.HASH_FILE, "", "utf8") on Sunday from 00:00 to 00:04
resetCountdownIfSundayMorning(now, file) ==
    IF now.day = 0 /\ now.hour = 0 /\ now.min < 5
    THEN saveHash(file, NoHash)
    ELSE file

\* checkAndPost up to its first await: the reset, then loadHash.
ResetStart(now) ==
    LET file == resetCountdownIfSundayMorning(now, hashFile)
    IN /\ hashFile' = file
       /\ lastPost' = IF file = hashFile THEN lastPost ELSE AfterStore(NoHash)
       /\ StartCycle("fetching", loadHash(file))

ResetFirstTimeoutFires(now) ==
    /\ sched = "timeout"
    /\ ResetStart(now)
    /\ sched' = "awaiting"
    /\ UNCHANGED <<longLivedToken, call, ws, triggerOverlap, timer>>

ResetIntervalTick(now) ==
    /\ sched = "interval"
    /\ ResetStart(now)
    /\ UNCHANGED <<longLivedToken, call, ws, triggerOverlap, sched, timer>>

\* Promise.all resolves; the comparison uses the lastHash read at the start.
ResetFetchResolvedWith(c, stock, weather, composeOk) ==
    /\ cycles[c].pc = "fetching"
    /\ LET currentHash == hashData(StockAndWeather(stock, weather))
           rec == [cycles[c] EXCEPT !.hash = currentHash]
       IN IF ~HashChanged(currentHash, cycles[c].lastHash)
          THEN /\ cycles' = [cycles EXCEPT ![c] = Done(rec, "nochange", FALSE)]
               /\ UNCHANGED <<hashFile, lastPost>>
          ELSE IF ~composeOk
               THEN /\ cycles' = [cycles EXCEPT ![c] = Done(rec, "compose_failed", TRUE)]
                    /\ UNCHANGED <<hashFile, lastPost>>
               ELSE IF longLivedToken
                    THEN ReadmeEnterPost(c, rec)
                    ELSE /\ cycles' = [cycles EXCEPT ![c] = [rec EXCEPT !.pc = "exchanging"]]
                         /\ UNCHANGED <<hashFile, lastPost>>
    /\ ArmInterval(c)
    /\ UNCHANGED ivFrame

ResetFetchResolved(c) ==
    \E stock \in Stocks, weather \in Weathers, composeOk \in BOOLEAN :
        ResetFetchResolvedWith(c, stock, weather, composeOk)

NextReset ==
    \/ \E now \in StartClocks : ResetFirstTimeoutFires(now)
    \/ \E now \in StartClocks : ResetIntervalTick(now)
    \/ \E c \in CycleIds : ReadmeStockNeverAnswers(c)
    \/ \E c \in CycleIds : ReadmeStockRejected(c)
    \/ \E c \in CycleIds : ResetFetchResolved(c)
    \/ \E c \in CycleIds : ReadmeExchangeSettled(c)
    \/ \E c \in CycleIds : ReadmePostAccepted(c)
    \/ \E c \in CycleIds : ReadmePostRejected(c)

SpecReset == InitInterval /\ [][NextReset]_vars

\* ======================================================= getStockData
\* The socket variants of getStockData: src/index.js 114-139 (with a timer),
\* src/README.md 165-181, src/unnamed/part_000 164-179 and
\* src/unnamed/part_004 131-146 (without).  ws is
\* the connection and the promise of the current call; left counts the
\* connections of earlier calls that were not closed.
MaxMessages == 2

SocketVariants == {"index.js", "README.md", "part_000", "part_004"}

\* new Promise(...): new WebSocket(url), and setTimeout in index.js.
Socket(variant) ==
    [variant |-> variant, calls |-> 1, readyState |-> "CONNECTING", sent |-> 0,
     timer |-> IF variant = "index.js" THEN "armed" ELSE "none",
     promise |-> "pending", value |-> JUndefined, received |-> 0, left |-> 0]

\* What the server sends: text JSON.parse throws on, or JSON with or without
\* a data member.
WsMessages ==
    {[parses |-> FALSE, data |-> JUndefined]}
        \cup {[parses |-> TRUE, data |-> d] : d \in Stocks \cup {JUndefined}}

\* resolve and reject act on a pending promise only.
Settle(s, how, value) ==
    IF s.promise = "pending" THEN [s EXCEPT !.promise = how, !.value = value] ELSE s

\* clearTimeout
Cleared(s) == IF s.timer = "armed" THEN [s EXCEPT !.timer = "cleared"] ELSE s

wsFrame == <<hashFile, cycles, started, longLivedToken, call, overlapped,
             triggerOverlap, lastPost, sched, timer>>

\* What a call of a function under study leaves alone.
fnFrame == <<hashFile, cycles, started, longLivedToken, ws, overlapped,
             triggerOverlap, lastPost, sched, timer>>

\* The caller awaits the promise: the next call is made once it has settled.
GetStockData ==
    /\ ws.promise # "pending"
    /\ ws.calls < MaxCycles
    /\ ws' = [Socket(ws.variant) EXCEPT
                !.calls = ws.calls + 1,
                !.left = ws.left + (IF ws.readyState = "CLOSED" THEN 0 ELSE 1)]
    /\ UNCHANGED wsFrame

\* ws.on("open", () => ws.send("getAllStock"))
WsOpen ==
    /\ ws.readyState = "CONNECTING"
    /\ ws' = [ws EXCEPT !.readyState = "OPEN", !.sent = @ + 1]
    /\ UNCHANGED wsFrame

\* ws.on("message", ...): index.js closes in finally; the other two close
\* only when JSON.parse succeeded.
WsMessage(msg) ==
    /\ ws.readyState = "OPEN"
    /\ ws.received < MaxMessages
    /\ LET got == [ws EXCEPT !.received = @ + 1]
           data == IF msg.data = JUndefined THEN EmptyObject ELSE msg.data
       IN ws' = IF ws.variant = "index.js"
                THEN [(IF msg.parses THEN Settle(Cleared(got), "resolved", data)
                       ELSE Settle(Cleared(got), "rejected", JUndefined))
                      EXCEPT !.readyState = "CLOSED"]
                ELSE IF msg.parses
                     THEN [Settle(got, "resolved", data) EXCEPT !.readyState = "CLOSED"]
                     ELSE Settle(got, "rejected", JUndefined)
    /\ UNCHANGED wsFrame

\* ws.on("error", ...): the connection failed or the peer broke the protocol;
\* the library closes the socket after emitting the event.
WsError ==
    /\ ws.readyState \in {"CONNECTING", "OPEN"}
    /\ ws' = [Settle(IF ws.variant = "index.js" THEN Cleared(ws) ELSE ws,
                     "rejected", JUndefined)
              EXCEPT !.readyState = "CLOSED"]
    /\ UNCHANGED wsFrame

\* index.js: the 8000 ms timer fires: ws.terminate() and reject.
WsTimeout ==
    /\ ws.timer = "armed"
    /\ ws' = [Settle(ws, "rejected", JUndefined)
              EXCEPT !.timer = "fired", !.readyState = "CLOSED"]
    /\ UNCHANGED wsFrame

\* The server closes the connection: no handler settles the promise.
WsServerCloses ==
    /\ ws.readyState = "OPEN"
    /\ ws' = [ws EXCEPT !.readyState = "CLOSED"]
    /\ UNCHANGED wsFrame

InitSocket ==
    /\ hashFile = [exists |-> FALSE, content |-> NoHash]
    /\ cycles = [c \in CycleIds |-> IdleCycle]
    /\ started = 0
    /\ longLivedToken = FALSE
    /\ overlapped = FALSE
    /\ triggerOverlap = FALSE
    /\ lastPost = NoHash
    /\ sched = "stopped"
    /\ timer = -1
    /\ call = NoCall
    /\ ws \in {Socket(v) : v \in SocketVariants}

NextSocket ==
    \/ GetStockData
    \/ WsOpen
    \/ \E msg \in WsMessages : WsMessage(msg)
    \/ WsError
    \/ WsTimeout
    \/ WsServerCloses

SpecSocket == InitSocket /\ [][NextSocket]_vars

\* ======================================== src/unnamed/part_002 25-155
\* The shared connection, opened when the module is loaded, and latestStock.
\* lastSuccess and lastData are history: the data member of the most recent
\* message whose status is success, and of the most recent such message that
\* carries data.
Unseen == [seen |-> FALSE, data |-> JUndefined]
Seen(data) == [seen |-> TRUE, data |-> data]

SharedSocket ==
    [variant |-> "part_002", readyState |-> "CONNECTING", sent |-> 0, received |-> 0,
     latestStock |-> JNull, lastSuccess |-> Unseen, lastData |-> Unseen]

\* The data of a message: gear and the traveling merchant.
CachedStockOf(qty) ==
    JObj(<<Member("gear", JNum(qty)), Member("travelingmerchant", JNum(qty))>>)

SharedMessages ==
    {[parses |-> FALSE, status |-> "none", data |-> JUndefined]}
        \cup [parses : {TRUE}, status : {"success", "error"},
              data : {JUndefined, JNull, EmptyObject}
                        \cup {CachedStockOf(q) : q \in 1..MaxQty}]

Truthy(j) == j.t \notin {"undefined", "null"}

\* A wrong test, which forgets the status.
AcceptedWhateverStatus(msg) == msg.parses /\ Truthy(msg.data)

\* parsed?.status === "success" && parsed?.data
Accepted(msg) == msg.parses /\ msg.status = "success" /\ Truthy(msg.data)

\* The object getStockData resolves with.
Selected(stock) ==
    JObj(<<Member("gear", Get(stock, "gear")),
           Member("seed", Get(stock, "seed")),
           Member("egg", Get(stock, "egg")),
           Member("honey", Get(stock, "honey")),
           Member("cosmetics", Get(stock, "cosmetics")),
           Member("merchant", Get(stock, "travelingmerchant"))>>)

Rejected == [settled |-> "rejected", value |-> JUndefined]
Resolved(value) == [settled |-> "resolved", value |-> value]

\* sharedWebSocket.on("open", ...): send({ action: "getAllStock" })
SharedOpen ==
    /\ ws.readyState = "CONNECTING"
    /\ ws' = [ws EXCEPT !.readyState = "OPEN", !.sent = @ + 1]
    /\ UNCHANGED wsFrame

\* sharedWebSocket.on("message", ...)
SharedMessage(msg) ==
    /\ ws.readyState = "OPEN"
    /\ ws.received < MaxMessages
    /\ ws' = [ws EXCEPT
                !.received = @ + 1,
                !.latestStock = IF Accepted(msg) THEN msg.data ELSE @,
                !.lastSuccess = IF msg.parses /\ msg.status = "success"
                                THEN Seen(msg.data) ELSE @,
                !.lastData = IF msg.parses /\ msg.status = "success"
                                  /\ msg.data \notin {JUndefined, JNull}
                             THEN Seen(msg.data) ELSE @]
    /\ UNCHANGED wsFrame

\* A wrong handler, which connects again.
SharedErrorReconnects ==
    /\ ws.readyState \in {"CONNECTING", "OPEN"}
    /\ ws' = [ws EXCEPT !.readyState = "CONNECTING"]
    /\ UNCHANGED wsFrame

\* The connection fails or is closed: sharedWebSocket.on("error", ...) logs,
\* there is no handler of close, and nothing reconnects.
SharedError ==
    /\ ws.readyState \in {"CONNECTING", "OPEN"}
    /\ ws' = [ws EXCEPT !.readyState = "CLOSED"]
    /\ UNCHANGED wsFrame

\* getStockData(): the executor runs synchronously.
CallGetStockData ==
    /\ call.fn = "getStockData"
    /\ call' = [call EXCEPT
                  !.returned = TRUE,
                  !.arg = <<ws.received>>,
                  !.result = IF ws.latestStock = JNull THEN Rejected
                             ELSE Resolved(Selected(ws.latestStock))]
    /\ UNCHANGED fnFrame

InitShared ==
    /\ hashFile = [exists |-> FALSE, content |-> NoHash]
    /\ cycles = [c \in CycleIds |-> IdleCycle]
    /\ started = 0
    /\ longLivedToken = FALSE
    /\ overlapped = FALSE
    /\ triggerOverlap = FALSE
    /\ lastPost = NoHash
    /\ sched = "stopped"
    /\ timer = -1
    /\ call = [NoCall EXCEPT !.fn = "getStockData"]
    /\ ws = SharedSocket

NextShared ==
    \/ SharedOpen
    \/ \E msg \in SharedMessages : SharedMessage(msg)
    \/ SharedError
    \/ CallGetStockData

SpecShared == InitShared /\ [][NextShared]_vars

\* ============================================== either scheduler
\* The process runs one of the two schedulers: the runCheck chain or the
\* fixed interval.  sched tells which, and never crosses.
AdaptiveMode == sched \in {"stopped", "running"}
InitModes == InitAdaptive \/ InitInterval
NextModes ==
    \/ AdaptiveMode /\ NextAdaptive
    \/ ~AdaptiveMode /\ NextInterval
SpecModes == InitModes /\ [][NextModes]_vars

\* ======================================================== pure functions
\* The functions studied on their own: a behaviour of SpecFunctions is one
\* call, of one function, on one argument.
Calls(fn, args) == {[fn |-> fn, arg |-> a, returned |-> FALSE, result |-> <<>>] : a \in args}
Result(value) == [call EXCEPT !.returned = TRUE, !.result = value]

\* ---- src/unnamed/part_003 204-214
\* Wall-clock times of the Asia/Manila zone, to the millisecond.
Clocks == [h : {12}, m : 0..59, s : 0..59, ms : {0, 1, 500, 999}]

\* new Date().toLocaleString("en-US", { timeZone: "Asia/Manila" }): the text
\* "M/D/YYYY, h:mm:ss AM", which carries no milliseconds.
toLocaleString(t) == <<t.h, ":", t.m, ":", t.s>>
\* new Date(text): the date the text says, at millisecond 0.
DateOf(text) == [h |-> text[1], m |-> text[3], s |-> text[5], ms |-> 0]

\* A wrong delay, which counts no minute on a boundary.
getDelayWithinMinute(t) ==
    LET current == DateOf(toLocaleString(t))
        minutesToNext == (5 - (current.m % 5)) % 5
    IN (minutesToNext * 60 - current.s) * 1000 - current.ms

getDelayToNext5MinutePH(t) ==
    LET now == toLocaleString(t)
        current == DateOf(now)
        ms == current.ms
        seconds == current.s
        minutes == current.m
        minutesToNext == 5 - (minutes % 5)
        delay == (minutesToNext * 60 - seconds) * 1000 - ms
    IN delay

CallGetDelayToNext5MinutePH ==
    /\ call.fn = "getDelayToNext5MinutePH"
    /\ ~call.returned
    /\ call' = Result(getDelayToNext5MinutePH(call.arg))
    /\ UNCHANGED fnFrame

\* ---- fingerprints: src/unnamed/part_003 70-87, 177 and
\* ---- src/unnamed/part_004 118-129, 265-268
\* A snapshot of the first feed, by what it holds: the order in which the
\* server wrote the keys, the quantity and the countdown of the gear
\* category, its updated_at and the top-level updated_at.
Reverse(seq) == [n \in 1..Len(seq) |-> seq[Len(seq) + 1 - n]]
Ordered(order, members) == IF order = "reversed" THEN Reverse(members) ELSE members

SnapshotForms ==
    [order : {"written", "reversed"}, qty : 1..MaxQty, sec : 0..MaxCountdown,
     stamp : 1..MaxStamp, top : 1..MaxStamp]

GagSnapshot(f) ==
    JObj(Ordered(f.order,
        <<Member("gear",
                 JObj(Ordered(f.order,
                     <<Member("quantity", JNum(f.qty)),
                       Member("countdown",
                              JStr(CountdownText([h |-> 0, m |-> 0, s |-> f.sec]))),
                       Member("updated_at", JNum(f.stamp))>>))),
          Member("seed", SeedSection),
          Member("updated_at", JNum(f.top))>>))

\* res.data of the second feed: the items and updatedAt.
PvbForms == [order : {"written"}, qty : 1..MaxQty, sec : {0}, stamp : 1..MaxStamp, top : {1}]
PvbData(f) ==
    JObj(<<Member("items", JNum(f.qty)), Member("updatedAt", JNum(f.stamp))>>)

\* What axios.get settles with: a response carrying data, or an error (no
\* answer within the timeout, no connection, a status outside 2xx).
Ok(data) == [ok |-> TRUE, data |-> data]
Failed == [ok |-> FALSE, data |-> JUndefined]

\* A wrong fetchWeather, without the try.
fetchWeatherUncaught(response) ==
    IF response.ok THEN Resolved(response.data) ELSE Rejected

\* fetchWeather: res.data, or null from the catch.
fetchWeather(response) ==
    IF response.ok THEN Resolved(response.data) ELSE Resolved(JNull)

\* fetchPvBStock: seed and gear are the two filters of res.data.items || [];
\* the catch, which a res.data that is not an object also reaches, gives
\* { seed: [], gear: [] }.
fetchPvBStock(response) ==
    IF response.ok /\ response.data.t = "obj"
    THEN LET items == IF Truthy(Get(response.data, "items"))
                      THEN Get(response.data, "items") ELSE JStr("[]")
         IN Resolved(JObj(<<Member("seed", items), Member("gear", items),
                            Member("updatedAt", Get(response.data, "updatedAt"))>>))
    ELSE Resolved(PvbFallback)

\* The fingerprint each feed compares with its file.
Fingerprint(feed, f) ==
    IF feed = "gag" THEN hashData(cleanStockForHashing(GagSnapshot(f)))
    ELSE hashData(fetchPvBStock(Ok(PvbData(f))).value)

FingerprintArgs ==
    [feed : {"gag"}, a : SnapshotForms, b : SnapshotForms]
        \cup [feed : {"pvb"}, a : PvbForms, b : PvbForms]

\* Two polls of a feed, each fingerprinted.
CallFingerprint ==
    /\ call.fn = "fingerprint"
    /\ ~call.returned
    /\ call' = Result(<<Fingerprint(call.arg.feed, call.arg.a),
                        Fingerprint(call.arg.feed, call.arg.b)>>)
    /\ UNCHANGED fnFrame

\* ---- the fetches of a cycle: src/README.md 132-153, 278-291
\* checkAndPost awaits Promise.all of the three fetches; call.arg holds the
\* three promises.
Pending == [settled |-> "pending", value |-> JUndefined]
AllPending == [stock |-> Pending, weather |-> Pending, pvb |-> Pending]

WeatherResponses == {Failed} \cup {Ok(w) : w \in Weathers}
PvbResponses ==
    {Failed, Ok(JNull), Ok(JObj(<<Member("updatedAt", JNum(1))>>))}
        \cup {Ok(PvbData(f)) : f \in PvbForms}

Fetching == call.fn = "checkAndPost"

\* getStockData settles.
StockSettles(outcome) ==
    /\ Fetching /\ call.arg.stock = Pending
    /\ call' = [call EXCEPT !.arg.stock = outcome]
    /\ UNCHANGED fnFrame

WeatherSettles(response) ==
    /\ Fetching /\ call.arg.weather = Pending
    /\ call' = [call EXCEPT !.arg.weather = fetchWeather(response)]
    /\ UNCHANGED fnFrame

PvbSettles(response) ==
    /\ Fetching /\ call.arg.pvb = Pending
    /\ call' = [call EXCEPT !.arg.pvb = fetchPvBStock(response)]
    /\ UNCHANGED fnFrame

\* await Promise.all([...]) returns once the three have resolved, or throws
\* into the catch of checkAndPost as soon as one has rejected.
AwaitReturns ==
    /\ Fetching /\ ~call.returned
    /\ LET p == call.arg
           rejected == \E k \in DOMAIN p : p[k].settled = "rejected"
           resolved == \A k \in DOMAIN p : p[k].settled = "resolved"
       IN /\ rejected \/ resolved
          /\ call' = Result([composed |-> ~rejected,
                             stock |-> IF rejected THEN JUndefined ELSE p.stock.value,
                             weather |-> IF rejected THEN JUndefined ELSE p.weather.value,
                             pvb |-> IF rejected THEN JUndefined ELSE p.pvb.value])
    /\ UNCHANGED fnFrame

\* ---- the update countdown: src/README.md 106-129 and
\* ---- src/unnamed/part_004 87-96
\* new Date(getPHDate()): the day of the week (0 is Sunday) and the time of
\* day in Manila.
WeekClocks == [day : 0..6, hour : 0..23, min : {0, 30}]

UPDATE_DAY == 6
UPDATE_HOUR == 22

\* target.setHours(UPDATE_HOUR, 0, 0, 0) - now, in minutes
UntilHourToday(now) == UPDATE_HOUR * 60 - (now.hour * 60 + now.min)

Countdown(minutes) == [shown |-> TRUE, ms |-> minutes * 60 * 1000]
NoCountdown == [shown |-> FALSE, ms |-> 0]

\* part_004: the target is today at UPDATE_HOUR_GAG, a week later on the
\* update day from that hour on.
getUpdateCountdownMessage_GAG(now) ==
    Countdown(UntilHourToday(now)
              + (IF now.day = UPDATE_DAY /\ now.hour >= UPDATE_HOUR
                 THEN 7 * 24 * 60 ELSE 0))

\* README.md: setDate(now.getDate() + 7 - now.getDay() + UPDATE_DAY)
getUpdateCountdownMessage(now) ==
    IF now.day = UPDATE_DAY /\ now.hour < UPDATE_HOUR
    THEN IF now.hour >= 20 THEN NoCountdown ELSE Countdown(UntilHourToday(now))
    ELSE Countdown((7 - now.day + UPDATE_DAY) * 24 * 60 + UntilHourToday(now))

CallGetUpdateCountdownMessage_GAG ==
    /\ call.fn = "getUpdateCountdownMessage_GAG"
    /\ ~call.returned
    /\ call' = Result(getUpdateCountdownMessage_GAG(call.arg))
    /\ UNCHANGED fnFrame

CallGetUpdateCountdownMessage ==
    /\ call.fn = "getUpdateCountdownMessage"
    /\ ~call.returned
    /\ call' = Result(getUpdateCountdownMessage(call.arg))
    /\ UNCHANGED fnFrame

\* ---- getDailyTip: src/index.js 80-101, src/README.md 78-96
\* call.arg is what the function reads: the tips of tips.json, the content
\* of shown_tips.json (no file reads as {}) and the Manila date; call.result
\* is the history of what it returned, with the date.
MaxTips == 2
MaxDays == 2
MaxTipCalls == 5

Tips == 1..MaxTips
NothingShown == [today |-> 1, shown |-> [d \in 1..MaxDays |-> {}]]

\* A wrong filter, which forgets what was shown.
AvailableWhatever(tips, used) == tips

\* tips.filter(tip => !used.includes(tip))
Available(tips, used) == tips \ used

\* Midnight in Manila.
DayPasses ==
    /\ call.fn = "getDailyTip"
    /\ call.arg.today < MaxDays
    /\ call' = [call EXCEPT !.arg.today = @ + 1]
    /\ UNCHANGED fnFrame

\* getDailyTip(): when nothing is available the list of the day is emptied
\* and the function calls itself.
GetDailyTip ==
    /\ call.fn = "getDailyTip"
    /\ Len(call.result) < MaxTipCalls
    /\ LET today == call.arg.today
           shown == call.arg.shown[today]
           used == IF Available(Tips, shown) = {} THEN {} ELSE shown
       IN \E selected \in Available(Tips, used) :
             call' = [call EXCEPT
                        !.arg.shown[today] = used \cup {selected},
                        !.returned = TRUE,
                        !.result = Append(@, [day |-> today, tip |-> selected])]
    /\ UNCHANGED fnFrame

\* One call of getDailyTip from any content of the two files: call.arg is
\* the tips of tips.json, the list of today in shown_tips.json and the depth
\* of the recursion, which ends with a RangeError when the stack is full.
MaxDepth == 3
TipFiles == [tips : SUBSET Tips, used : SUBSET Tips, depth : {0}]

GetDailyTipFrom ==
    /\ call.fn = "getDailyTipFrom" /\ ~call.returned
    /\ LET available == Available(call.arg.tips, call.arg.used)
       IN IF available = {}
          THEN IF call.arg.depth < MaxDepth
               THEN call' = [call EXCEPT !.arg.used = {}, !.arg.depth = @ + 1]
               ELSE call' = Result([thrown |-> TRUE, tip |-> 0])
          ELSE \E selected \in available :
                  call' = [call EXCEPT
                             !.arg.used = @ \cup {selected},
                             !.returned = TRUE,
                             !.result = [thrown |-> FALSE, tip |-> selected]]
    /\ UNCHANGED fnFrame

\* ---- POST /trigger: src/index.js 214-239, 257-264
\* How an invocation of checkAndPost ends, and the ends that are an error
\* thrown inside its try: a rejected fetch, an error while composing, a
\* failed token exchange, the error the publisher rethrows after its last
\* attempt.
CycleOutcomes ==
    {"nochange", "fetch_failed", "compose_failed", "token_failed", "skipped",
     "posted", "publish_failed"}
Throws == {"fetch_failed", "compose_failed", "token_failed", "publish_failed"}

\* A wrong checkAndPost, without its catch.
checkAndPostUncaught(outcome) ==
    IF outcome \in Throws THEN "rejected" ELSE "fulfilled"

\* The promise of checkAndPost: catch (err) { logErr(...) } ends normally.
checkAndPostPromise(outcome) ==
    IF outcome \in Throws THEN "fulfilled" ELSE "fulfilled"

AwaitingCycle == [at |-> "awaiting", outcome |-> "none", promise |-> "pending"]

\* The invocation the handler awaits comes to its end.
TriggerCycleEnds(outcome) ==
    /\ call.fn = "trigger" /\ call.arg.at = "awaiting"
    /\ call' = [call EXCEPT !.arg = [at |-> "settled", outcome |-> outcome,
                                     promise |-> checkAndPostPromise(outcome)]]
    /\ UNCHANGED fnFrame

\* try { await checkAndPost(); res.send(...) } catch (err) { res.status(500)... }
TriggerResponds ==
    /\ call.fn = "trigger" /\ call.arg.at = "settled" /\ ~call.returned
    /\ call' = Result(IF call.arg.promise = "fulfilled"
                      THEN [status |-> 200, body |-> "Manual post triggered"]
                      ELSE [status |-> 500, body |-> "Failed"])
    /\ UNCHANGED fnFrame

\* ---- cleanStockForHashing as a call: src/unnamed/part_003 82-87, 159-202
\* The deletes act on the clone; they reach the caller's snapshot through
\* the objects the clone shares with it.
\* A wrong copy, { ...stock }: the categories are the caller's own objects.
SharedBySpread == {"categories"}

\* JSON.parse(JSON.stringify(stock)), and structuredClone(stock) in
\* src/index.js 675-680: new objects at every depth, none shared.
SharedWithArgument == {}

\* The snapshot the caller holds once cleanStockForHashing has returned.
ArgumentAfterCleaning(stock) ==
    LET top == IF "top" \in SharedWithArgument
               THEN DeleteKey(stock, "updated_at") ELSE stock
    IN [top EXCEPT !.kv = [n \in 1..Len(top.kv) |->
                              IF "categories" \in SharedWithArgument
                              THEN Member(top.kv[n].k,
                                          DeleteKey(top.kv[n].v, "updated_at"))
                              ELSE top.kv[n]]]

\* const stockHash = hashData(cleanStockForHashing(stock)), then the message
\* is composed from stock.
CallCleanStockForHashing ==
    /\ call.fn = "cleanStockForHashing" /\ ~call.returned
    /\ call' = Result([stock |-> ArgumentAfterCleaning(call.arg),
                       clone |-> cleanStockForHashing(call.arg)])
    /\ UNCHANGED fnFrame

InitFunctions ==
    /\ hashFile = [exists |-> FALSE, content |-> NoHash]
    /\ cycles = [c \in CycleIds |-> IdleCycle]
    /\ started = 0
    /\ longLivedToken = FALSE
    /\ overlapped = FALSE
    /\ triggerOverlap = FALSE
    /\ lastPost = NoHash
    /\ sched = "stopped"
    /\ timer = -1
    /\ ws = NoSocket
    /\ call \in Calls("getDelayToNext5MinutePH", Clocks)
                \cup Calls("fingerprint", FingerprintArgs)
                \cup Calls("checkAndPost", {AllPending})
                \cup Calls("trigger", {AwaitingCycle})
                \cup Calls("getDailyTipFrom", TipFiles)
                \cup Calls("cleanStockForHashing", AdaptiveStocks)
                \cup Calls("getUpdateCountdownMessage_GAG", WeekClocks)
                \cup Calls("getUpdateCountdownMessage", WeekClocks)
                \cup Calls("getDailyTip", {NothingShown})

NextFunctions ==
    \/ CallGetDelayToNext5MinutePH
    \/ CallFingerprint
    \/ \E outcome \in {Rejected} \cup {Resolved(stock) : stock \in Stocks} :
          StockSettles(outcome)
    \/ \E response \in WeatherResponses : WeatherSettles(response)
    \/ \E response \in PvbResponses : PvbSettles(response)
    \/ AwaitReturns
    \/ CallGetUpdateCountdownMessage_GAG
    \/ CallGetUpdateCountdownMessage
    \/ DayPasses
    \/ GetDailyTip
    \/ \E outcome \in CycleOutcomes : TriggerCycleEnds(outcome)
    \/ TriggerResponds
    \/ GetDailyTipFrom
    \/ CallCleanStockForHashing

SpecFunctions == InitFunctions /\ [][NextFunctions]_vars

\* ================================================================ claims
Active == {c \in CycleIds : cycles[c].pc \in {"fetching", "exchanging", "posting", "backoff"}}
Finished(c) == c \in CycleIds /\ cycles[c].pc = "done"
Stored(h) == hashFile.exists /\ hashFile.content = h

\* C1 (as stated): the fingerprint file is written only by the step in which
\* a post request is accepted; it therefore holds nothing, or the fingerprint
\* of a published snapshot.  Refuted by index.js: postToFacebook returns
\* without posting when the token or the image is missing, saveHash follows.
C1_SaveOnlyAfterPost ==
    [][hashFile' # hashFile => \E c \in CycleIds : PostAccepted(c)]_vars

\* C2 (as stated): a step in which the publish request fails for good leaves
\* the fingerprint file unchanged.  Refuted by the publishers that catch their
\* own error: checkAndPost goes on to saveHash.
C2_FailedPublishKeepsStore ==
    [][\A c \in CycleIds : ReadmePostRejected(c) => hashFile' = hashFile]_vars

\* C3 (as stated): when invocations run one after the other and one ends in
\* a failed publish, the next one that fetches the same content does not end
\* as "no change": it invokes the publisher again.
C3_RetryAfterFailure ==
    ~overlapped =>
        \A c \in CycleIds :
            (/\ Finished(c) /\ cycles[c].outcome = "publish_failed"
             /\ Finished(c + 1) /\ cycles[c + 1].hash = cycles[c].hash)
            => cycles[c + 1].outcome # "nochange"

\* Invocation c leaves its fetch in this step.
LeavesFetch(c) == cycles[c].pc = "fetching" /\ cycles'[c].pc # "fetching"

\* The publisher was invoked by this step of invocation c: it is in the token
\* exchange or the post request, or it has returned and the hash was saved.
PublisherInvoked(c) ==
    cycles'[c].pc \in {"exchanging", "posting"} \/ hashFile' # hashFile

Clean(c) == Finished(c) /\ ~cycles[c].fault
C7_OneCycleAtATime == Cardinality(Active) <= 1

\* C8 (as stated): a POST /trigger that arrives while an invocation is in
\* flight starts no other one.  Refuted: the handler calls checkAndPost.
C8_TriggerStartsNoConcurrentCycle ==
    [][(ManualTrigger /\ InFlight # {}) => InFlight' = InFlight]_vars

\* C9 (as stated): no post is accepted for the fingerprint of the last
\* accepted post unless another fingerprint was stored in between.  Refuted
\* by two invocations in flight that fetched the same snapshot.
C9_NoDuplicatePost ==
    [][\A c \in CycleIds : PostAccepted(c) => lastPost # cycles[c].hash]_vars

\* C10 (as stated): once started, the adaptive scheduler has an invocation
\* that will return or a timer pending.  Refuted by a stock request that
\* never answers: runCheck never reaches its setTimeout.
C10_AlwaysRearmed ==
    sched = "running" => (timer >= 0 \/ Active # {})

\* C11 (as stated): no invocation of a feed ends as a rejected promise that
\* nobody handles.  Refuted by the second feed: postPlantsVsBrainrots is
\* called by a timer, outside every try, and its loadHash and saveHash can
\* throw.
C11_NoErrorEscapes == \A c \in CycleIds : cycles[c].pc # "rejected"

\* Milliseconds since the hour of a wall-clock time.
MsOfHour(t) == (t.m * 60 + t.s) * 1000 + t.ms
Returns(fn) == call.fn = fn /\ call.returned

\* C12 (as stated): the delay returned for the time t is positive, at most
\* 5 minutes, and t plus the delay is a multiple of 5 minutes: the next
\* boundary of the grid, to the millisecond.  Refuted: the time goes through
\* toLocaleString, which drops the milliseconds; 12:03:27.500 gives 93000.
C12_GridAligned ==
    Returns("getDelayToNext5MinutePH") =>
        /\ call.result > 0
        /\ call.result <= 5 * 60 * 1000
        /\ (MsOfHour(call.arg) + call.result) % (5 * 60 * 1000) = 0

\* The countdown durations of the categories a snapshot carries, expired
\* ones (0) included.
Durations(stock) ==
    {parseCountdown(Get(Get(stock, key), "countdown")) :
        key \in {k \in {"gear", "seed"} : Get(stock, k).t = "obj"}}
\* The delay computed by invocation c in the step that ends its fetch: armed
\* already, or kept in nextCheckInterval while the publisher runs.
ComputedDelay(c) == IF cycles'[c].pc = "done" THEN timer' ELSE cycles'[c].next

\* C13 (as stated): a cycle that fetched a snapshot computes the minimum of
\* the countdown durations of its categories plus 1000 ms, and the timer is
\* armed with the delay the cycle computed.  Refuted by a snapshot with an
\* expired category next to a running one: the code takes the minimum of the
\* positive durations only.
C13_DelayIsMinPlusMargin ==
    [][\A c \in CycleIds :
          /\ LeavesFetch(c) =>
                \A stock \in AdaptiveStocks :
                    AdFetchResolvedWith(c, stock)
                    => ComputedDelay(c) = Min(Durations(stock)) + 1000
          /\ (cycles[c].pc \in {"exchanging", "posting"} /\ cycles'[c].pc = "done")
                => timer' = cycles[c].next]_vars

\* C14: in adaptive mode, the step in which the snapshot request fails arms
\* the timer with DEFAULT_CHECK_INTERVAL_MS (30 s), invokes no publisher and
\* leaves the fingerprint file as it was; in fixed-interval mode the step in
\* which the fetch fails leaves the armed interval armed and the file as it
\* was.
C14_FetchFailureFallsBack ==
    [][\A c \in CycleIds :
          /\ (AdaptiveMode /\ AdFetchRejected(c))
                => /\ timer' = 30 * 1000
                   /\ sched' = "running"
                   /\ ~PublisherInvoked(c)
                   /\ hashFile' = hashFile /\ lastPost' = lastPost
          /\ (sched = "interval" /\ ReadmeStockRejected(c))
                => /\ sched' = "interval"
                   /\ ~PublisherInvoked(c)
                   /\ hashFile' = hashFile /\ lastPost' = lastPost]_vars

\* An adaptive cycle has failed to fetch and the runCheck chain waits the
\* default interval.
C14_Witness ==
    /\ sched = "running" /\ timer = DEFAULT_CHECK_INTERVAL_MS
    /\ \E c \in CycleIds : Finished(c) /\ cycles[c].outcome = "fetch_failed"

\* C15: the step in which the snapshot request of an invocation fails ends
\* the invocation without invoking the publisher and without writing the
\* fingerprint file.
C15_FetchFailureSkipsCycle ==
    [][\A c \in CycleIds :
          LeavesFetch(c) =>
            \A weather \in Weathers :
              HttpFetchSettledWith(c, EmptyObject, weather)
                => /\ cycles'[c].pc = "done"
                   /\ ~PublisherInvoked(c)]_vars

\* C16: a call of the socket getStockData sends at most one getAllStock, and
\* exactly one when it resolves; its promise, once settled, stays as it
\* settled; and when the promise has settled, with data or with an error, the
\* connection is closed.
C16_OneRequestSettledOnceClosed ==
    /\ [](ws.variant \in SocketVariants =>
            /\ ws.sent <= 1
            /\ (ws.promise = "resolved" => ws.sent = 1)
            /\ (ws.promise # "pending" => ws.readyState = "CLOSED"))
    /\ [][(ws.variant \in SocketVariants /\ ws.promise # "pending"
              /\ ws'.calls = ws.calls)
            => (ws'.promise = ws.promise /\ ws'.value = ws.value)]_vars

\* C17: a call of getStockData that has not settled has its timer armed, so
\* that a server that never answers makes it reject; and a message or an
\* error that arrives while the timer is armed cancels it.
C17_EveryCallHasItsTimeout ==
    /\ []((ws.variant \in SocketVariants /\ ws.promise = "pending")
            => ws.timer = "armed")
    /\ [][(ws.variant \in SocketVariants /\ ws.timer = "armed"
              /\ (ws'.received # ws.received \/ WsError))
            => ws'.timer = "cleared"]_vars

C19_ExchangeIsCached ==
    [][\A c \in CycleIds :
          (cycles[c].pc = "exchanging" /\ cycles'[c].pc = "posting")
              => longLivedToken']_vars

\* C20: a publisher that finds no media file returns as from a skip: no
\* invocation ends with the absence of the file thrown and caught as an
\* error, logged by console.error as a failed post.
C20_NoMediaIsASkip ==
    \A c \in CycleIds : cycles[c].outcome # "media_error"

C22_TimestampsNotFingerprinted ==
    (Returns("fingerprint")
        /\ call.arg.a.order = call.arg.b.order
        /\ call.arg.a.qty = call.arg.b.qty
        /\ call.arg.a.sec = call.arg.b.sec)
      => call.result[1] = call.result[2]

\* C23: two snapshots with the same categories, items, quantities and
\* timestamps, whose keys were written in a different order, have the same
\* fingerprint.
C23_KeyOrderNotFingerprinted ==
    (Returns("fingerprint")
        /\ call.arg.a.qty = call.arg.b.qty
        /\ call.arg.a.sec = call.arg.b.sec
        /\ call.arg.a.stamp = call.arg.b.stamp
        /\ call.arg.a.top = call.arg.b.top)
      => call.result[1] = call.result[2]

\* The positions of an invocation of each feed function.
GagPcs == {FeedPc("gag", pc) : pc \in {"fetching", "exchanging", "posting"}}
PvbPcs == {FeedPc("pvb", pc) : pc \in {"fetching", "exchanging", "posting"}}

\* The fingerprints of the data each feed can deliver.
GagFingerprints ==
    {hashData(StockAndWeather(stock, weather)) : stock \in Stocks, weather \in Weathers}
PvbFingerprints == {hashData(pvb) : pvb \in Pvbs}
FeedFingerprints(feed) == IF feed = "pvb" THEN PvbFingerprints ELSE GagFingerprints

C25_AuxiliaryFetchesDegrade ==
    [][/\ \A response \in WeatherResponses :
            WeatherSettles(response)
                => call'.arg.weather =
                      Resolved(IF response.ok THEN response.data ELSE JNull)
       /\ \A response \in PvbResponses :
            PvbSettles(response)
                => /\ call'.arg.pvb.settled = "resolved"
                   /\ ~response.ok
                        => /\ Get(call'.arg.pvb.value, "seed") = JStr("[]")
                           /\ Get(call'.arg.pvb.value, "gear") = JStr("[]")
       /\ (AwaitReturns /\ call'.result.composed)
            => /\ \A k \in DOMAIN call.arg : call.arg[k].settled = "resolved"
               /\ call'.result.weather = call.arg.weather.value
               /\ call'.result.pvb = call.arg.pvb.value]_vars

\* The message is composed from a snapshot, no weather and empty lists of
\* the second feed: both auxiliary requests had failed.
C25_Witness ==
    /\ call.fn = "checkAndPost" /\ call.returned
    /\ call.result.composed
    /\ call.result.weather = JNull
    /\ call.result.pvb = PvbFallback

\* The minutes from now to the next Saturday 22:00, a whole week when it is
\* Saturday 22:00.
MinutesToUpdate(now) ==
    LET week == 7 * 24 * 60
        left == ((6 * 24 + 22) * 60 - ((now.day * 24 + now.hour) * 60 + now.min)) % week
    IN IF left = 0 THEN week ELSE left

\* C26: the countdown shown is the time from now to the next Saturday 22:00
\* in Manila: positive and at most 7 days.
C26_CountdownToNextUpdate ==
    ((Returns("getUpdateCountdownMessage_GAG") \/ Returns("getUpdateCountdownMessage"))
        /\ call.result.shown)
      => /\ call.result.ms > 0
         /\ call.result.ms <= 7 * 24 * 60 * 60 * 1000
         /\ call.result.ms = MinutesToUpdate(call.arg) * 60 * 1000

\* The tips returned on a day, in order.
TipsOf(day) == SelectSeq(call.result, LAMBDA e : e.day = day)

\* C27: on each day, the tips returned are a succession of rounds of all the
\* tips: no tip comes twice in a round, and a tip comes again only after
\* every tip has come once.
C27_TipRotation ==
    call.fn = "getDailyTip" =>
        \A day \in 1..MaxDays :
            LET h == TipsOf(day)
            IN \A i, j \in 1..Len(h) :
                  (i < j /\ (i - 1) \div MaxTips = (j - 1) \div MaxTips)
                      => h[i].tip # h[j].tip

\* On some day every tip has been returned and a further call returned one
\* of them again.
C27_Witness ==
    /\ call.fn = "getDailyTip"
    /\ \E day \in 1..MaxDays : Len(TipsOf(day)) > MaxTips

\* What a fetch can resolve with, and its fingerprint.
Fetched ==
    {[stock |-> stock, weather |-> weather,
      hash |-> hashData(StockAndWeather(stock, weather))] :
        stock \in Stocks, weather \in Weathers}

ExpiredStocks ==
    {q.stock : q \in {p \in {[stock |-> stock, durations |-> Durations(stock)] :
                                 stock \in AdaptiveStocks} : p.durations \subseteq {0}}}

\* C29: when the fetch of an adaptive cycle resolves with a snapshot none of
\* whose categories has a positive countdown, the cycle returns at once: the
\* timer is armed with 1000 ms, the publisher is not invoked and the
\* fingerprint file is left as it was, whatever it holds.
C29_NoCountdownPollsAgain ==
    [][\A c \in CycleIds :
          LeavesFetch(c) =>
              \A stock \in ExpiredStocks :
                  AdFetchResolvedWith(c, stock)
                  => /\ cycles'[c].pc = "done"
                     /\ timer' = 1000
                     /\ ~PublisherInvoked(c)
                     /\ hashFile' = hashFile /\ lastPost' = lastPost]_vars

\* Two cycles in a row found no positive countdown, the file still empty.
C29_Witness ==
    /\ Finished(1) /\ cycles[1].outcome = "nocountdown"
    /\ Finished(2) /\ cycles[2].outcome = "nocountdown"
    /\ timer = 1000
    /\ loadHash(hashFile) = NoHash

\* A snapshot without its timestamps and countdowns: what is in stock.
Items(stock) ==
    LET bare == DeleteKey(stock, "updated_at")
    IN [bare EXCEPT !.kv = [n \in 1..Len(bare.kv) |->
                               Member(bare.kv[n].k,
                                      DeleteKey(DeleteKey(bare.kv[n].v, "updated_at"),
                                                "countdown"))]]
OnlyCountdownDiffers(s1, s2) ==
    /\ Items(s1) = Items(s2)
    /\ \E key \in {"gear", "seed"} :
          Get(Get(s1, key), "countdown") # Get(Get(s2, key), "countdown")
\* For each pair of snapshots of the feed that differ only so: the fingerprint
\* of the first, and the second.
CountdownVariants ==
    {[stored |-> hashData(cleanStockForHashing(p[1])), fetched |-> p[2]] :
        p \in {q \in AdaptiveStocks \X AdaptiveStocks : OnlyCountdownDiffers(q[1], q[2])}}

C34_OneRequestNeverReopened ==
    [][/\ ws'.sent # ws.sent
            => /\ ws.readyState = "CONNECTING" /\ ws'.readyState = "OPEN"
               /\ ws.sent = 0 /\ ws'.sent = 1
       /\ (ws'.readyState = "OPEN" /\ ws.readyState # "OPEN")
            => (ws.readyState = "CONNECTING" /\ ws'.sent = 1)
       /\ ws.readyState # "CONNECTING" => ws'.readyState # "CONNECTING"
       /\ ws.readyState = "CLOSED"
            => /\ ws' = ws
               /\ call' # call
                    => call'.result = IF ws.latestStock = JNull THEN Rejected
                                      ELSE Resolved(Selected(ws.latestStock))]_vars

\* The socket sent its request, cached a snapshot and was closed, and a call
\* of getStockData resolved with that snapshot.
C34_Witness ==
    /\ ws.readyState = "CLOSED" /\ ws.sent = 1
    /\ ws.latestStock # JNull
    /\ call.returned /\ call.result = Resolved(Selected(ws.latestStock))

C36_TipReturned ==
    call.fn = "getDailyTipFrom" =>
        /\ call.arg.depth <= 1
        /\ call.returned => (~call.result.thrown /\ call.result.tip \in call.arg.tips)

\* C37: in the adaptive variant at most one runCheck chain exists: at most
\* one invocation is in flight, none while a timer is pending, and a timer
\* is armed only when none is pending; and a call of startAutoPoster after
\* the first changes nothing.
C37_OneChain ==
    /\ [](sched \in {"stopped", "running"} =>
            /\ Cardinality(InFlight) + (IF timer >= 0 THEN 1 ELSE 0) <= 1
            /\ sched = "stopped" => (started = 0 /\ timer = -1))
    /\ [][/\ (timer' >= 0 /\ timer' # timer) => (timer = -1 /\ InFlight # {})
          /\ (sched = "running" /\ StartAutoPoster) => UNCHANGED vars]_vars

\* The chain is in its second invocation: the first has finished, its timer
\* has fired and none is pending.
C37_Witness ==
    /\ sched = "running"
    /\ Finished(1) /\ cycles[2].pc = "fetching"
    /\ timer = -1

\* C38: for every time, the delay getDelayToNext5MinutePH computes is from
\* 1 to 300000 ms, never 0, and it is 300000 on a 5-minute boundary: the
\* variants that replace a delay of 0 never do.
C38_DelayPositive ==
    Returns("getDelayToNext5MinutePH") =>
        /\ call.result \in 1..300000
        /\ (call.arg.m % 5 = 0 /\ call.arg.s = 0) => call.result = 300000

\* The delay has been computed at a time exactly on a boundary.
C38_Witness ==
    /\ Returns("getDelayToNext5MinutePH")
    /\ call.arg.m % 5 = 0 /\ call.arg.s = 0 /\ call.arg.ms = 0
    /\ call.result = 300000

\* C39: cleanStockForHashing leaves its argument unchanged: the updated_at
\* members are removed from a deep copy only, so the snapshot the message
\* and the countdowns are taken from afterwards has every member it had
\* when it was fetched, while the copy that is hashed has no updated_at.
C39_ArgumentUnchanged ==
    Returns("cleanStockForHashing")
        => /\ call.result.stock = call.arg
           /\ Countdowns(call.result.stock) = Countdowns(call.arg)
           /\ Get(Get(call.result.stock, "gear"), "updated_at") # JUndefined
           /\ Get(call.result.clone, "updated_at") = JUndefined
           /\ \A key \in {"gear", "seed"} :
                 Get(Get(call.result.clone, key), "updated_at") = JUndefined

\* A snapshot with updated_at at the top and in its category has been
\* cleaned: the copy lost both.
C39_Witness ==
    /\ Returns("cleanStockForHashing")
    /\ Get(call.arg, "updated_at") # JUndefined
    /\ Get(Get(call.arg, "gear"), "updated_at") # JUndefined
    /\ call.result.clone # call.arg

====
